---------------------------- MODULE Spec2Model ----------------------------
(***************************************************************************)
(* The per-guild queue and playback state machine of OwnMusicBot.          *)
(*                                                                         *)
(* The repository holds two programs: OwnedBot.py (module-level            *)
(* dictionaries song_queues / stop_flags / search_results and free         *)
(* command functions) and OwnDMusicBot.2.0.py (class MusicCog, one         *)
(* asyncio.Queue per guild, no stop flag).  The variable `bot` says which  *)
(* of the two is running; it never changes.  Each command handler is one   *)
(* action, except play, which suspends at `await YTDLSource.from_url` and  *)
(* at the `await ctx.send` that follows the appends, and so is three.      *)
(*                                                                         *)
(* discord.py's VoiceClient is modelled by what the handlers use of it:    *)
(* ctx.voice_client is None unless the guild is connected; _player is      *)
(* None, playing, paused, or ended (source exhausted, _player kept);       *)
(* stop() ends a live player, whose thread then calls `after`, which       *)
(* schedules play_next on the event loop.                                  *)
(***************************************************************************)
EXTENDS Integers, Sequences, FiniteSets, TLC

(* Bounds of the model: play commands that reach the extraction step in    *)
(* one run, and entries of one extraction result.                          *)
MaxPlays == 2
MaxEntries == 2

AllGuilds == {"g1", "g2"}
Bots == {"OwnedBot", "MusicCog"}

(* The runs explored: one guild with MaxPlays play commands (Spec), or two *)
(* guilds that share MaxPlays - 1 (SpecGuilds).                            *)
OneGuild == [guilds |-> {"g1"}, plays |-> MaxPlays]
TwoGuilds == [guilds |-> AllGuilds, plays |-> MaxPlays - 1]

VARIABLES
    bot,            \* which program of the repository is running
    env,            \* the guilds that issue commands, and how many plays
    song_queues,    \* guild id -> pending tracks (a dict: the domain grows)
    stop_flags,     \* guild id -> bool (OwnedBot.py only)
    search_results, \* guild id -> last search's [(title, videoId)]
    connected,      \* guild -> ctx.voice_client is not None
    player,         \* guild -> voice_client._player: source, state, volume
    callbacks,      \* guild -> `after` callbacks scheduled, not yet run
    plays,          \* play commands suspended at an await
    nextPlay,       \* submission number of the next play command
    enqueued,       \* history: guild -> number of tracks appended so far
    lastDequeued,   \* history: guild -> number of the track removed last
    stopMark,       \* history: guild -> tracks appended when stop last ran
    last            \* the handler step that ran last and what it sent

vars == <<bot, env, song_queues, stop_flags, search_results, connected, player,
          callbacks, plays, nextPlay, enqueued, lastDequeued, stopMark, last>>

Guilds == env.guilds

-----------------------------------------------------------------------------
(* Queries, search results, tracks *)

Digits == {"0", "1", "2", "3", "4", "5", "6", "7", "8", "9"}

DigitValue(c) ==
    CASE c = "0" -> 0 [] c = "1" -> 1 [] c = "2" -> 2 [] c = "3" -> 3
      [] c = "4" -> 4 [] c = "5" -> 5 [] c = "6" -> 6 [] c = "7" -> 7
      [] c = "8" -> 8 [] c = "9" -> 9

(* str.isdigit(): non-empty and every character a digit. *)
isdigit(q) == Len(q) > 0 /\ \A i \in 1..Len(q) : q[i] \in Digits

(* int(query) of a digit string. *)
RECURSIVE int(_)
int(q) ==
    IF q = <<>> THEN 0
    ELSE 10 * int(SubSeq(q, 1, Len(q) - 1)) + DigitValue(q[Len(q)])

(* The query strings the model issues, as sequences of characters. *)
Queries == {<<"0">>, <<"1">>, <<"2">>, <<"s">>}

(* The lists the search provider returns: (title, videoId) pairs. *)
ResultLists ==
    { << <<"t1", "v1">> >>,
      << <<"t2", "v2">>, <<"t3", "v3">> >> }

(* f"https://www.youtube.com/watch?v={video_id}" *)
WatchUrl(video_id) == <<"watch?v=", video_id>>

NoUrl == <<>>
NoQuery == <<>>
NoTrack == <<>>
NoPlayer == [src |-> NoTrack, st |-> "none", vol |-> 0]

(* YTDLSource.__init__: volume=0.5, in percent. *)
DefaultVolume == 50
Volumes == {100}

(* A player object from_url built: the n-th track appended to its guild's  *)
(* queue, by play command p.                                               *)
Track(n, p) == <<n, p>>
TrackNo(t) == t[1]
TrackPlay(t) == t[2]
Players(p, n, base) == [k \in 1..n |-> Track(base + k, p)]
Playing(t) == [src |-> t, st |-> "playing", vol |-> DefaultVolume]

(* dict.setdefault(key, value): an existing key keeps its value. *)
dict_setdefault(d, k, v) ==
    [x \in (DOMAIN d) \cup {k} |-> IF x \in DOMAIN d THEN d[x] ELSE v]

(* dict[key] = value, adding the key when it is new. *)
Put(d, k, v) == [x \in (DOMAIN d) \cup {k} |-> IF x = k THEN v ELSE d[x]]

(* Python's list[i] for a 0-based index i that may be negative. *)
PyIndexOk(s, i) == -Len(s) <= i /\ i < Len(s)
PyIndex(s, i) == IF i >= 0 THEN s[i + 1] ELSE s[Len(s) + i + 1]

-----------------------------------------------------------------------------
(* What a handler step reports: the command, its guild, a play command's   *)
(* query and the url it hands to from_url, the cause of an `after`         *)
(* callback, the messages the invocation has sent so far, whether an       *)
(* exception left the handler, and whether the invocation has returned.    *)

Event(cmd, g, q, url, cause, msgs, raised, done) ==
    [cmd |-> cmd, g |-> g, q |-> q, url |-> url, cause |-> cause,
     msgs |-> msgs, raised |-> raised, done |-> done]

NoCause == ""
Reply(cmd, g, msgs) == Event(cmd, g, NoQuery, NoUrl, NoCause, msgs, FALSE, TRUE)
Raises(cmd, g, msgs) == Event(cmd, g, NoQuery, NoUrl, NoCause, msgs, TRUE, TRUE)

Msg(text, arg) == [text |-> text, arg |-> arg]
Text(text) == Msg(text, <<>>)

Listing(tracks) == Msg("**Current Queue:**", tracks)
SearchListing(videos) == Msg("**Search Results:**", videos)
NowPlaying(t) == Msg("**Now playing:**", <<t>>)
Added(n) ==
    IF n > 1 THEN Text("**Added N songs to the queue.**")
    ELSE Text("**Added to queue:**")
(* The message of a successful play, sent where the error belongs. *)
AddedToQueue == Text("**Added to queue:**")
ErrorOccurred == Text("An error occurred:")

-----------------------------------------------------------------------------
(* The guild's pending tracks: none while the dict has no entry for it. *)
Pending(g) == IF g \in DOMAIN song_queues THEN song_queues[g] ELSE <<>>

-----------------------------------------------------------------------------
(* discord.VoiceClient *)

(* A player exists and has not ended: playing or paused. *)
is_live(g) == player[g].st \in {"playing", "paused"}

is_playing(g) == player[g].st = "playing"
is_paused(g) == player[g].st = "paused"

(* VoiceClient.stop(): a live player is ended and its thread calls `after`; *)
(* _player becomes None. *)
VoiceStop(g, cause) ==
    /\ player' = [player EXCEPT ![g] = NoPlayer]
    /\ callbacks' = [callbacks EXCEPT ![g] =
            IF player[g].st \in {"playing", "paused"}
            THEN Append(@, cause) ELSE @]

(* VoiceClient.play(source, after=...) raises unless connected and not playing. *)
CanPlay(g) == connected[g] /\ ~is_playing(g)

-----------------------------------------------------------------------------
(* OwnedBot.py *)

StopFlagSet(g) == g \in DOMAIN stop_flags /\ stop_flags[g]
HasPending(g) == g \in DOMAIN song_queues /\ song_queues[g] # <<>>

(* list.pop(): the last element, a slip for pop(0). *)
list_pop_last(queue) ==
    [item |-> queue[Len(queue)], rest |-> SubSeq(queue, 1, Len(queue) - 1)]

(* queue[0]: reads the front element and leaves it in the list. *)
list_index0(queue) == [item |-> Head(queue), rest |-> queue]

(* song_queues[server_id].pop(0), line 144 *)
list_pop0(queue) == [item |-> Head(queue), rest |-> Tail(queue)]

(* play_next(ctx), lines 138-148: what it does to the queue, the flag and  *)
(* the voice client.  An exception of voice_client.play leaves the popped  *)
(* track out of the queue.                                                 *)
Owned_play_next(g) ==
    IF StopFlagSet(g)
    THEN /\ stop_flags' = [stop_flags EXCEPT ![g] = FALSE]
         /\ UNCHANGED <<song_queues, player, lastDequeued>>
    ELSE IF HasPending(g)
    THEN /\ song_queues' = [song_queues EXCEPT ![g] = list_pop0(@).rest]
         /\ lastDequeued' = [lastDequeued EXCEPT ![g] = TrackNo(list_pop0(song_queues[g]).item)]
         /\ player' = IF CanPlay(g)
                      THEN [player EXCEPT ![g] = Playing(list_pop0(song_queues[g]).item)]
                      ELSE player
         /\ UNCHANGED stop_flags
    ELSE UNCHANGED <<song_queues, stop_flags, player, lastDequeued>>

(* The messages play_next sends, and whether voice_client.play raised. *)
Owned_play_next_msgs(g) ==
    IF StopFlagSet(g) THEN <<>>
    ELSE IF HasPending(g)
    THEN (IF CanPlay(g) THEN <<NowPlaying(list_pop0(song_queues[g]).item)>> ELSE <<>>)
    ELSE <<Text("Queue is empty.")>>

Owned_play_next_raises(g) == ~StopFlagSet(g) /\ HasPending(g) /\ ~CanPlay(g)

(* join, lines 156-163 *)
Owned_join(g, inVoice) ==
    /\ bot = "OwnedBot"
    /\ IF ~inVoice
       THEN /\ last' = Reply("join", g, <<Text("is not connected to a voice channel")>>)
            /\ UNCHANGED connected
       ELSE IF connected[g]
       THEN /\ last' = Raises("join", g, <<>>)
            /\ UNCHANGED connected
       ELSE /\ connected' = [connected EXCEPT ![g] = TRUE]
            /\ last' = Reply("join", g, <<>>)
    /\ UNCHANGED <<stopMark, bot, env, song_queues, stop_flags, search_results, player,
                   callbacks, plays, nextPlay, enqueued, lastDequeued>>

(* leave, lines 166-172 *)
Owned_leave(g) ==
    /\ bot = "OwnedBot"
    /\ IF ~connected[g]
       THEN /\ last' = Raises("leave", g, <<>>)
            /\ UNCHANGED <<connected, player, callbacks>>
       ELSE /\ VoiceStop(g, "leave")
            /\ connected' = [connected EXCEPT ![g] = FALSE]
            /\ last' = Reply("leave", g, <<>>)
    /\ UNCHANGED <<stopMark, bot, env, song_queues, stop_flags, search_results,
                   plays, nextPlay, enqueued, lastDequeued>>

(* search, lines 176-213: the provider fails, or returns response.videos. *)
Owned_search(g, response) ==
    /\ bot = "OwnedBot"
    /\ IF response.fails
       THEN /\ last' = Reply("search", g, <<Text("An error occurred during search:")>>)
            /\ UNCHANGED search_results
       ELSE IF response.videos = <<>>
       THEN /\ last' = Reply("search", g, <<Text("No songs found for that query.")>>)
            /\ UNCHANGED search_results
       ELSE /\ search_results' = Put(search_results, g, response.videos)
            /\ last' = Reply("search", g, <<SearchListing(response.videos)>>)
    /\ UNCHANGED <<stopMark, bot, env, song_queues, stop_flags, connected, player,
                   callbacks, plays, nextPlay, enqueued, lastDequeued>>

(* play, lines 225-231: the ordinal test and the url handed to from_url. *)
Owned_ordinal_ok(g, q) ==
    g \in DOMAIN search_results /\ 1 <= int(q) /\ int(q) <= Len(search_results[g])

Owned_play_url(g, q) ==
    IF isdigit(q) THEN WatchUrl(search_results[g][int(q)][2]) ELSE q

(* play, lines 216-234: up to the await of YTDLSource.from_url. *)
Owned_play(g, q) ==
    /\ bot = "OwnedBot"
    /\ song_queues' = IF g \in DOMAIN song_queues THEN song_queues
                      ELSE Put(song_queues, g, <<>>)
    /\ stop_flags' = IF g \in DOMAIN song_queues THEN stop_flags
                     ELSE Put(stop_flags, g, FALSE)
    /\ IF isdigit(q) /\ ~Owned_ordinal_ok(g, q)
       THEN /\ last' = Event("play", g, q, NoUrl, NoCause,
                   <<Text("Invalid number from search results.")>>, FALSE, TRUE)
            /\ UNCHANGED <<plays, nextPlay>>
       ELSE /\ nextPlay <= env.plays
            /\ plays' = plays \cup {[id |-> nextPlay, g |-> g, stage |-> "from_url", n |-> 0]}
            /\ nextPlay' = nextPlay + 1
            /\ last' = Event("play", g, q, Owned_play_url(g, q), NoCause, <<>>, FALSE, FALSE)
    /\ UNCHANGED <<stopMark, bot, env, search_results, connected, player, callbacks,
                   enqueued, lastDequeued>>

(* play, lines 234-245: from_url returns n players, which are appended;    *)
(* the handler then suspends in ctx.send.                                  *)
Owned_play_resolved(p, n) ==
    /\ bot = "OwnedBot"
    /\ p \in plays /\ p.stage = "from_url"
    /\ IF n = 0
       THEN /\ plays' = plays \ {p}
            /\ last' = Reply("play", p.g, <<Text("Could not find any songs with that query.")>>)
            /\ UNCHANGED <<song_queues, enqueued>>
       ELSE /\ song_queues' = [song_queues EXCEPT ![p.g] = @ \o Players(p.id, n, enqueued[p.g])]
            /\ enqueued' = [enqueued EXCEPT ![p.g] = @ + n]
            /\ plays' = (plays \ {p}) \cup {[p EXCEPT !.stage = "sent", !.n = n]}
            /\ last' = Event("play", p.g, NoQuery, NoUrl, NoCause, <<Added(n)>>, FALSE, FALSE)
    /\ UNCHANGED <<stopMark, bot, env, stop_flags, search_results, connected, player,
                   callbacks, nextPlay, lastDequeued>>

(* play, lines 234 and 250-251: extract_info raises. *)
Owned_play_failed(p) ==
    /\ bot = "OwnedBot"
    /\ p \in plays /\ p.stage = "from_url"
    /\ plays' = plays \ {p}
    /\ last' = Reply("play", p.g, <<ErrorOccurred>>)
    /\ UNCHANGED <<stopMark, bot, env, song_queues, stop_flags, search_results, connected,
                   player, callbacks, nextPlay, enqueued, lastDequeued>>

(* play, lines 247-251: after the send, start playback unless playing. *)
Owned_play_resumed(p) ==
    /\ bot = "OwnedBot"
    /\ p \in plays /\ p.stage = "sent"
    /\ plays' = plays \ {p}
    /\ IF ~connected[p.g]
       THEN /\ last' = Reply("play", p.g, <<Added(p.n), ErrorOccurred>>)
            /\ UNCHANGED <<song_queues, stop_flags, player, lastDequeued>>
       ELSE IF is_playing(p.g)
       THEN /\ last' = Reply("play", p.g, <<Added(p.n)>>)
            /\ UNCHANGED <<song_queues, stop_flags, player, lastDequeued>>
       ELSE /\ Owned_play_next(p.g)
            /\ last' = Reply("play", p.g,
                   <<Added(p.n)>> \o Owned_play_next_msgs(p.g)
                       \o (IF Owned_play_next_raises(p.g)
                           THEN <<ErrorOccurred>> ELSE <<>>))
    /\ UNCHANGED <<stopMark, bot, env, search_results, connected, callbacks, nextPlay, enqueued>>

(* pause, lines 255-261 *)
Owned_pause(g) ==
    /\ bot = "OwnedBot"
    /\ IF ~connected[g]
       THEN /\ last' = Raises("pause", g, <<>>)
            /\ UNCHANGED player
       ELSE IF is_playing(g)
       THEN /\ player' = [player EXCEPT ![g].st = "paused"]
            /\ last' = Reply("pause", g, <<>>)
       ELSE /\ last' = Reply("pause", g,
                   <<Text("The bot is not playing anything at the moment.")>>)
            /\ UNCHANGED player
    /\ UNCHANGED <<stopMark, bot, env, song_queues, stop_flags, search_results, connected,
                   callbacks, plays, nextPlay, enqueued, lastDequeued>>

(* resume, lines 264-272 *)
Owned_resume(g) ==
    /\ bot = "OwnedBot"
    /\ IF ~connected[g]
       THEN /\ last' = Raises("resume", g, <<>>)
            /\ UNCHANGED player
       ELSE IF is_paused(g)
       THEN /\ player' = [player EXCEPT ![g].st = "playing"]
            /\ last' = Reply("resume", g, <<>>)
       ELSE /\ last' = Reply("resume", g,
                   <<Text("The bot was not playing anything before this.")>>)
            /\ UNCHANGED player
    /\ UNCHANGED <<stopMark, bot, env, song_queues, stop_flags, search_results, connected,
                   callbacks, plays, nextPlay, enqueued, lastDequeued>>

(* queue, lines 279-286 *)
Owned_queue(g) ==
    /\ bot = "OwnedBot"
    /\ last' = Reply("queue", g,
            IF HasPending(g) THEN <<Listing(song_queues[g])>>
            ELSE <<Text("The queue is empty.")>>)
    /\ UNCHANGED <<stopMark, bot, env, song_queues, stop_flags, search_results, connected,
                   player, callbacks, plays, nextPlay, enqueued, lastDequeued>>

(* skip, lines 288-294 *)
Owned_skip(g) ==
    /\ bot = "OwnedBot"
    /\ IF ~connected[g]
       THEN /\ last' = Raises("skip", g, <<>>)
            /\ UNCHANGED <<player, callbacks>>
       ELSE IF is_playing(g)
       THEN /\ VoiceStop(g, "skip")
            /\ last' = Reply("skip", g, <<Text("Skipped the song.")>>)
       ELSE /\ last' = Reply("skip", g, <<Text("Not playing anything.")>>)
            /\ UNCHANGED <<player, callbacks>>
    /\ UNCHANGED <<stopMark, bot, env, song_queues, stop_flags, search_results, connected,
                   plays, nextPlay, enqueued, lastDequeued>>

(* clear, lines 296-301 *)
Owned_clear(g) ==
    /\ bot = "OwnedBot"
    /\ song_queues' = IF g \in DOMAIN song_queues
                      THEN [song_queues EXCEPT ![g] = <<>>] ELSE song_queues
    /\ last' = Reply("clear", g, <<Text("Queue has been cleared.")>>)
    /\ UNCHANGED <<stopMark, bot, env, stop_flags, search_results, connected, player,
                   callbacks, plays, nextPlay, enqueued, lastDequeued>>

(* stop that leaves the queue as it is. *)
Owned_stop_keeps_queue(g) == song_queues

(* stop that empties the queue of every guild. *)
Owned_stop_clears_every_queue(g) == [x \in DOMAIN song_queues |-> <<>>]

(* stop, lines 306-307: song_queues with the guild's queue emptied. *)
Owned_stop_clears_queue(g) ==
    IF g \in DOMAIN song_queues
    THEN [song_queues EXCEPT ![g] = <<>>] ELSE song_queues

(* stop, lines 303-311 *)
Owned_stop(g) ==
    /\ bot = "OwnedBot"
    /\ song_queues' = Owned_stop_clears_queue(g)
    /\ IF ~connected[g]
       THEN /\ last' = Raises("stop", g, <<>>)
            /\ UNCHANGED <<stop_flags, player, callbacks>>
       ELSE /\ IF is_playing(g)
               THEN /\ stop_flags' = Put(stop_flags, g, TRUE)
                    /\ VoiceStop(g, "stop")
               ELSE UNCHANGED <<stop_flags, player, callbacks>>
            /\ last' = Reply("stop", g, <<Text("Music stopped and queue cleared.")>>)
    /\ stopMark' = [stopMark EXCEPT ![g] = enqueued[g]]
    /\ UNCHANGED <<bot, env, search_results, connected, plays, nextPlay,
                   enqueued, lastDequeued>>

(* The `after` callback of voice_client.play, line 145: play_next runs on  *)
(* the event loop; an exception it raises stays in the discarded future.   *)
Owned_after(g) ==
    /\ bot = "OwnedBot"
    /\ callbacks[g] # <<>>
    /\ callbacks' = [callbacks EXCEPT ![g] = Tail(@)]
    /\ Owned_play_next(g)
    /\ last' = Event("after", g, NoQuery, NoUrl, Head(callbacks[g]),
                     Owned_play_next_msgs(g), Owned_play_next_raises(g), TRUE)
    /\ UNCHANGED <<stopMark, bot, env, search_results, connected, plays, nextPlay, enqueued>>

-----------------------------------------------------------------------------
(* OwnDMusicBot.2.0.py, class MusicCog *)

(* get_queue without the membership test: a new queue on every call. *)
get_queue_always_new(g) == Put(song_queues, g, <<>>)

(* get_queue, lines 106-109: self.song_queues with the guild's queue made. *)
get_queue(g) ==
    IF g \in DOMAIN song_queues THEN song_queues ELSE Put(song_queues, g, <<>>)

(* A LIFO queue's get(): the newest item. *)
queue_get_newest(queue) ==
    [item |-> queue[Len(queue)], rest |-> SubSeq(queue, 1, Len(queue) - 1)]

(* asyncio.Queue.get() of a non-empty queue, line 169: the oldest item. *)
queue_get(queue) == [item |-> Head(queue), rest |-> Tail(queue)]

(* play_next, lines 166-171 *)
Cog_has_next(g) == get_queue(g)[g] # <<>> /\ connected[g]

Cog_play_next(g) ==
    IF Cog_has_next(g)
    THEN /\ song_queues' = [song_queues EXCEPT ![g] = queue_get(@).rest]
         /\ lastDequeued' = [lastDequeued EXCEPT ![g] = TrackNo(queue_get(song_queues[g]).item)]
         /\ player' = IF CanPlay(g)
                      THEN [player EXCEPT ![g] = Playing(queue_get(song_queues[g]).item)]
                      ELSE player
    ELSE /\ song_queues' = get_queue(g)
         /\ UNCHANGED <<player, lastDequeued>>

Cog_play_next_msgs(g) ==
    IF Cog_has_next(g) /\ CanPlay(g)
    THEN <<NowPlaying(queue_get(song_queues[g]).item)>> ELSE <<>>

Cog_play_next_raises(g) == Cog_has_next(g) /\ ~CanPlay(g)

(* join, lines 111-117 *)
Cog_join(g, inVoice) ==
    /\ bot = "MusicCog"
    /\ IF ~inVoice
       THEN /\ last' = Reply("join", g, <<Text("You are not connected to a voice channel.")>>)
            /\ UNCHANGED connected
       ELSE /\ connected' = [connected EXCEPT ![g] = TRUE]
            /\ last' = Reply("join", g, <<>>)
    /\ UNCHANGED <<stopMark, bot, env, song_queues, stop_flags, search_results, player,
                   callbacks, plays, nextPlay, enqueued, lastDequeued>>

(* leave, lines 119-122 *)
Cog_leave(g) ==
    /\ bot = "MusicCog"
    /\ IF connected[g]
       THEN /\ VoiceStop(g, "leave")
            /\ connected' = [connected EXCEPT ![g] = FALSE]
       ELSE UNCHANGED <<connected, player, callbacks>>
    /\ last' = Reply("leave", g, <<>>)
    /\ UNCHANGED <<stopMark, bot, env, song_queues, stop_flags, search_results,
                   plays, nextPlay, enqueued, lastDequeued>>

(* search, lines 124-138 *)
Cog_search(g, response) ==
    /\ bot = "MusicCog"
    /\ IF response.fails
       THEN /\ last' = Reply("search", g, <<Text("An error occurred during search:")>>)
            /\ UNCHANGED search_results
       ELSE IF response.videos = <<>>
       THEN /\ last' = Reply("search", g, <<Text("No songs found.")>>)
            /\ UNCHANGED search_results
       ELSE /\ search_results' = Put(search_results, g, response.videos)
            /\ last' = Reply("search", g, <<SearchListing(response.videos)>>)
    /\ UNCHANGED <<stopMark, bot, env, song_queues, stop_flags, connected, player,
                   callbacks, plays, nextPlay, enqueued, lastDequeued>>

(* play, lines 145-149: the ordinal test, the list index, the url. *)
Cog_is_ordinal(g, q) == isdigit(q) /\ g \in DOMAIN search_results

Cog_index_ok(g, q) == PyIndexOk(search_results[g], int(q) - 1)

Cog_play_url(g, q) ==
    IF Cog_is_ordinal(g, q)
    THEN WatchUrl(PyIndex(search_results[g], int(q) - 1)[2])
    ELSE q

(* play, lines 140-152: up to the await of YTDLSource.from_url. *)
Cog_play(g, q) ==
    /\ bot = "MusicCog"
    /\ song_queues' = get_queue(g)
    /\ IF Cog_is_ordinal(g, q) /\ ~Cog_index_ok(g, q)
       THEN /\ last' = Event("play", g, q, NoUrl, NoCause, <<ErrorOccurred>>, FALSE, TRUE)
            /\ UNCHANGED <<plays, nextPlay>>
       ELSE /\ nextPlay <= env.plays
            /\ plays' = plays \cup {[id |-> nextPlay, g |-> g, stage |-> "from_url", n |-> 0]}
            /\ nextPlay' = nextPlay + 1
            /\ last' = Event("play", g, q, Cog_play_url(g, q), NoCause, <<>>, FALSE, FALSE)
    /\ UNCHANGED <<stopMark, bot, env, stop_flags, search_results, connected, player,
                   callbacks, enqueued, lastDequeued>>

(* play, lines 152-159: from_url returns n players, which are put on the   *)
(* queue; players[0] of an empty list raises IndexError.                   *)
Cog_play_resolved(p, n) ==
    /\ bot = "MusicCog"
    /\ p \in plays /\ p.stage = "from_url"
    /\ IF n = 0
       THEN /\ plays' = plays \ {p}
            /\ last' = Reply("play", p.g, <<ErrorOccurred>>)
            /\ UNCHANGED <<song_queues, enqueued>>
       ELSE /\ song_queues' = [song_queues EXCEPT ![p.g] = @ \o Players(p.id, n, enqueued[p.g])]
            /\ enqueued' = [enqueued EXCEPT ![p.g] = @ + n]
            /\ plays' = (plays \ {p}) \cup {[p EXCEPT !.stage = "sent", !.n = n]}
            /\ last' = Event("play", p.g, NoQuery, NoUrl, NoCause, <<Added(n)>>, FALSE, FALSE)
    /\ UNCHANGED <<stopMark, bot, env, stop_flags, search_results, connected, player,
                   callbacks, nextPlay, lastDequeued>>

(* play, lines 152 and 163-164: extract_info raises. *)
Cog_play_failed(p) ==
    /\ bot = "MusicCog"
    /\ p \in plays /\ p.stage = "from_url"
    /\ plays' = plays \ {p}
    /\ last' = Reply("play", p.g, <<ErrorOccurred>>)
    /\ UNCHANGED <<stopMark, bot, env, song_queues, stop_flags, search_results, connected,
                   player, callbacks, nextPlay, enqueued, lastDequeued>>

(* play, lines 161-164: after the send, start playback unless playing. *)
Cog_play_resumed(p) ==
    /\ bot = "MusicCog"
    /\ p \in plays /\ p.stage = "sent"
    /\ plays' = plays \ {p}
    /\ IF ~connected[p.g]
       THEN /\ last' = Reply("play", p.g, <<Added(p.n), ErrorOccurred>>)
            /\ UNCHANGED <<song_queues, player, lastDequeued>>
       ELSE IF is_playing(p.g)
       THEN /\ last' = Reply("play", p.g, <<Added(p.n)>>)
            /\ UNCHANGED <<song_queues, player, lastDequeued>>
       ELSE /\ Cog_play_next(p.g)
            /\ last' = Reply("play", p.g,
                   <<Added(p.n)>> \o Cog_play_next_msgs(p.g)
                       \o (IF Cog_play_next_raises(p.g)
                           THEN <<ErrorOccurred>> ELSE <<>>))
    /\ UNCHANGED <<stopMark, bot, env, stop_flags, search_results, connected, callbacks,
                   nextPlay, enqueued>>

(* volume, lines 173-177 *)
Cog_volume(g, volume) ==
    /\ bot = "MusicCog"
    /\ IF connected[g] /\ player[g].st # "none"
       THEN /\ player' = [player EXCEPT ![g].vol = volume]
            /\ last' = Reply("volume", g, <<Text("Volume set to")>>)
       ELSE /\ last' = Reply("volume", g, <<>>)
            /\ UNCHANGED player
    /\ UNCHANGED <<stopMark, bot, env, song_queues, stop_flags, search_results, connected,
                   callbacks, plays, nextPlay, enqueued, lastDequeued>>

(* nowplaying, lines 179-184 *)
Cog_nowplaying(g) ==
    /\ bot = "MusicCog"
    /\ last' = Reply("nowplaying", g,
            IF connected[g] /\ player[g].st # "none"
            THEN <<NowPlaying(player[g].src)>>
            ELSE <<Text("Not playing anything.")>>)
    /\ UNCHANGED <<stopMark, bot, env, song_queues, stop_flags, search_results, connected,
                   player, callbacks, plays, nextPlay, enqueued, lastDequeued>>

(* queue, lines 186-193 *)
Cog_queue_info(g) ==
    /\ bot = "MusicCog"
    /\ song_queues' = get_queue(g)
    /\ last' = Reply("queue", g,
            IF HasPending(g) THEN <<Listing(song_queues[g])>>
            ELSE <<Text("The queue is empty.")>>)
    /\ UNCHANGED <<stopMark, bot, env, stop_flags, search_results, connected,
                   player, callbacks, plays, nextPlay, enqueued, lastDequeued>>

(* skip, lines 195-199 *)
Cog_skip(g) ==
    /\ bot = "MusicCog"
    /\ IF connected[g] /\ is_playing(g)
       THEN /\ VoiceStop(g, "skip")
            /\ last' = Reply("skip", g, <<Text("Skipped the song.")>>)
       ELSE /\ last' = Reply("skip", g, <<>>)
            /\ UNCHANGED <<player, callbacks>>
    /\ UNCHANGED <<stopMark, bot, env, song_queues, stop_flags, search_results, connected,
                   plays, nextPlay, enqueued, lastDequeued>>

(* stop, lines 201-208 *)
Cog_stop(g) ==
    /\ bot = "MusicCog"
    /\ song_queues' = [get_queue(g) EXCEPT ![g] = <<>>]
    /\ IF connected[g]
       THEN VoiceStop(g, "stop")
       ELSE UNCHANGED <<player, callbacks>>
    /\ last' = Reply("stop", g, <<Text("Music stopped and queue cleared.")>>)
    /\ stopMark' = [stopMark EXCEPT ![g] = enqueued[g]]
    /\ UNCHANGED <<bot, env, stop_flags, search_results, connected, plays,
                   nextPlay, enqueued, lastDequeued>>

(* The `after` callback of voice_client.play, line 170: a task running     *)
(* play_next; an exception it raises stays in the task.                    *)
Cog_after(g) ==
    /\ bot = "MusicCog"
    /\ callbacks[g] # <<>>
    /\ callbacks' = [callbacks EXCEPT ![g] = Tail(@)]
    /\ Cog_play_next(g)
    /\ last' = Event("after", g, NoQuery, NoUrl, Head(callbacks[g]),
                     Cog_play_next_msgs(g), Cog_play_next_raises(g), TRUE)
    /\ UNCHANGED <<stopMark, bot, env, stop_flags, search_results, connected, plays,
                   nextPlay, enqueued>>

-----------------------------------------------------------------------------
(* The audio thread: the playing source is exhausted; the player ends and  *)
(* calls `after`.  voice_client._player stays set.                         *)
TrackEnds(g) ==
    /\ is_playing(g)
    /\ player' = [player EXCEPT ![g].st = "ended"]
    /\ callbacks' = [callbacks EXCEPT ![g] = Append(@, "end")]
    /\ last' = Reply("track_end", g, <<>>)
    /\ UNCHANGED <<stopMark, bot, env, song_queues, stop_flags, search_results, connected,
                   plays, nextPlay, enqueued, lastDequeued>>

-----------------------------------------------------------------------------
Start(environment) ==
    /\ bot \in Bots
    /\ env = environment
    /\ song_queues = <<>>
    /\ stop_flags = <<>>
    /\ search_results = <<>>
    /\ connected = [g \in AllGuilds |-> FALSE]
    /\ player = [g \in AllGuilds |-> NoPlayer]
    /\ callbacks = [g \in AllGuilds |-> <<>>]
    /\ plays = {}
    /\ nextPlay = 1
    /\ enqueued = [g \in AllGuilds |-> 0]
    /\ lastDequeued = [g \in AllGuilds |-> 0]
    /\ stopMark = [g \in AllGuilds |-> 0]
    /\ last = Reply("init", "g1", <<>>)

Init == Start(OneGuild)
InitGuilds == Start(TwoGuilds)

(* What the search provider answers: an error, no items, or a list. *)
SearchResponses ==
    {[fails |-> TRUE, videos |-> <<>>]}
        \cup {[fails |-> FALSE, videos |-> v] : v \in ResultLists \cup {<<>>}}

(* How many players from_url returns. *)
Extracted == 0..MaxEntries

Next ==
    \/ \E g \in Guilds, inVoice \in BOOLEAN : Owned_join(g, inVoice)
    \/ \E g \in Guilds : Owned_leave(g)
    \/ \E g \in Guilds, response \in SearchResponses : Owned_search(g, response)
    \/ \E g \in Guilds, q \in Queries : Owned_play(g, q)
    \/ \E p \in plays, n \in Extracted : Owned_play_resolved(p, n)
    \/ \E p \in plays : Owned_play_failed(p)
    \/ \E p \in plays : Owned_play_resumed(p)
    \/ \E g \in Guilds : Owned_pause(g)
    \/ \E g \in Guilds : Owned_resume(g)
    \/ \E g \in Guilds : Owned_queue(g)
    \/ \E g \in Guilds : Owned_skip(g)
    \/ \E g \in Guilds : Owned_clear(g)
    \/ \E g \in Guilds : Owned_stop(g)
    \/ \E g \in Guilds : Owned_after(g)
    \/ \E g \in Guilds, inVoice \in BOOLEAN : Cog_join(g, inVoice)
    \/ \E g \in Guilds : Cog_leave(g)
    \/ \E g \in Guilds, response \in SearchResponses : Cog_search(g, response)
    \/ \E g \in Guilds, q \in Queries : Cog_play(g, q)
    \/ \E p \in plays, n \in Extracted : Cog_play_resolved(p, n)
    \/ \E p \in plays : Cog_play_failed(p)
    \/ \E p \in plays : Cog_play_resumed(p)
    \/ \E g \in Guilds, volume \in Volumes : Cog_volume(g, volume)
    \/ \E g \in Guilds : Cog_nowplaying(g)
    \/ \E g \in Guilds : Cog_queue_info(g)
    \/ \E g \in Guilds : Cog_skip(g)
    \/ \E g \in Guilds : Cog_stop(g)
    \/ \E g \in Guilds : Cog_after(g)
    \/ \E g \in Guilds : TrackEnds(g)

Spec == Init /\ [][Next]_vars
SpecGuilds == InitGuilds /\ [][Next]_vars

-----------------------------------------------------------------------------
(* The scenario of one connected guild of OwnedBot: the users enqueue the  *)
(* tracks of Scenario with play commands (in any interleaving of their     *)
(* extractions), the first track ends by itself, the second is skipped,    *)
(* the third is stopped.  The commands are issued in that order whatever   *)
(* the program did before.                                                 *)
Scenario == <<"A", "B", "C">>
ScenarioEnv == [guilds |-> {"g1"}, plays |-> Len(Scenario)]
InitScenario == Start(ScenarioEnv) /\ bot = "OwnedBot"

Extracting(g) == {p \in plays : p.g = g /\ p.stage = "from_url"}
AllEnqueued(g) == plays = {} /\ enqueued[g] = Len(Scenario)
AfterOf(cause) == last.cmd = "after" /\ last.cause = cause

NextScenario ==
    \/ \E g \in Guilds : ~connected[g] /\ Owned_join(g, TRUE)
    \/ \E g \in Guilds : /\ connected[g]
                         /\ enqueued[g] + Cardinality(Extracting(g)) < Len(Scenario)
                         /\ Owned_play(g, <<"s">>)
    \/ \E p \in plays, n \in 1..MaxEntries :
           /\ enqueued[p.g] + n + Cardinality(Extracting(p.g) \ {p}) <= Len(Scenario)
           /\ Owned_play_resolved(p, n)
    \/ \E p \in plays : Owned_play_resumed(p)
    \/ \E g \in Guilds : AllEnqueued(g) /\ last.cmd = "play" /\ TrackEnds(g)
    \/ \E g \in Guilds : Owned_after(g)
    \/ \E g \in Guilds : AfterOf("end") /\ Owned_skip(g)
    \/ \E g \in Guilds : AfterOf("skip") /\ Owned_stop(g)

SpecScenario == InitScenario /\ [][NextScenario]_vars

-----------------------------------------------------------------------------
(* OwnedBot on one guild that the bot joins and does not leave, with the   *)
(* commands that reach play_next and the stop flag, given once the bot is  *)
(* connected.  The event loop runs every handler that can continue and     *)
(* every callback that is due, and a track that plays comes to its end.    *)
InitStopFlag == Start(OneGuild) /\ bot = "OwnedBot"

NextStopFlag ==
    \/ \E g \in Guilds : Owned_join(g, TRUE)
    \/ \E g \in Guilds, q \in Queries : connected[g] /\ Owned_play(g, q)
    \/ \E p \in plays, n \in Extracted : Owned_play_resolved(p, n)
    \/ \E p \in plays : Owned_play_failed(p)
    \/ \E p \in plays : Owned_play_resumed(p)
    \/ \E g \in Guilds : connected[g] /\ Owned_skip(g)
    \/ \E g \in Guilds : connected[g] /\ Owned_stop(g)
    \/ \E g \in Guilds : Owned_after(g)
    \/ \E g \in Guilds : TrackEnds(g)

Delivery ==
    /\ WF_vars(\E g \in Guilds : Owned_after(g))
    /\ WF_vars(\E p \in plays : Owned_play_resumed(p))
    /\ WF_vars(\E p \in plays, n \in Extracted : Owned_play_resolved(p, n))
    /\ WF_vars(\E g \in Guilds : TrackEnds(g))

SpecStopFlag == InitStopFlag /\ [][NextStopFlag]_vars /\ Delivery

-----------------------------------------------------------------------------
(* Claims *)

(* C1: tracks leave pending for playback in the order in which they were   *)
(* appended.  Tracks are numbered in append order, so: pending is in       *)
(* increasing order, every pending track was appended after the track that *)
(* play_next removed last, and the player's track is not a later one.      *)
C1_Fifo ==
    \A g \in AllGuilds :
        /\ \A i \in 1..Len(Pending(g)) : TrackNo(Pending(g)[i]) > lastDequeued[g]
        /\ \A i \in 1..(Len(Pending(g)) - 1) :
               TrackNo(Pending(g)[i]) < TrackNo(Pending(g)[i + 1])
        /\ player[g].st # "none" => TrackNo(player[g].src) <= lastDequeued[g]

(* The second track appended is playing and two wait, the first play      *)
(* command's tracks appended after the second's.                           *)
C1_Witness ==
    \E g \in AllGuilds :
        /\ is_playing(g) /\ TrackNo(player[g].src) = 2
        /\ lastDequeued[g] = 2
        /\ Len(Pending(g)) = 2
        /\ TrackPlay(Pending(g)[1]) = 1

HasNowPlaying(msgs) == \E i \in 1..Len(msgs) : msgs[i].text = "**Now playing:**"

(* C2 as stated: the completion callback of a stopped track starts no     *)
(* track and the guild is not playing once it has run.                     *)
C2_Original ==
    AfterOf("stop") => ~is_playing(last.g) /\ ~HasNowPlaying(last.msgs)

(* C2, amended: every pending track was appended after the guild's last    *)
(* stop (a track that was pending when stop ran never returns to pending,  *)
(* so it is never played); and the completion callback of a stopped track  *)
(* starts no track and leaves the guild not playing when no track has been *)
(* appended since the stop.                                                *)
C2_Amended ==
    /\ \A g \in AllGuilds : \A i \in 1..Len(Pending(g)) :
           TrackNo(Pending(g)[i]) > stopMark[g]
    /\ (AfterOf("stop") /\ enqueued[last.g] = stopMark[last.g])
           => ~is_playing(last.g) /\ ~HasNowPlaying(last.msgs)

(* The callback of a stop that threw a pending track away has just run.    *)
C2_Witness ==
    /\ AfterOf("stop")
    /\ enqueued[last.g] = 2 /\ stopMark[last.g] = 2 /\ lastDequeued[last.g] = 1

(* C3: a stop command issued while the guild is Playing or Paused leaves   *)
(* pending empty and the guild Idle: neither playing nor paused, so that   *)
(* no resume can continue the stopped track.  (Stop starts nothing, so a   *)
(* guild that is playing or paused after it was so before it.)             *)
C3_StopLeavesIdle ==
    (last.cmd = "stop" /\ ~last.raised)
        => /\ Pending(last.g) = <<>>
           /\ player[last.g].st \notin {"playing", "paused"}

(* The guild plays the k-th track enqueued and the later ones wait in order. *)
PlayingNth(g, k) ==
    /\ is_playing(g) /\ TrackNo(player[g].src) = k
    /\ Len(Pending(g)) = Len(Scenario) - k
    /\ \A i \in 1..Len(Pending(g)) : TrackNo(Pending(g)[i]) = k + i

(* C4: in the scenario, once A, B and C are enqueued A plays and B, C     *)
(* wait; the callback of A's natural end starts B; the callback of the     *)
(* skip during B starts C; the callback of the stop during C starts        *)
(* nothing and leaves the guild Idle with pending empty; each of the three *)
(* events leaves its callback pending.                                     *)
C4_Scenario == \A g \in Guilds :
    /\ (AllEnqueued(g) /\ last.cmd = "play") => PlayingNth(g, 1)
    /\ last.cmd \in {"track_end", "skip", "stop"} => Len(callbacks[g]) = 1
    /\ AfterOf("end") => PlayingNth(g, 2)
    /\ AfterOf("skip") => PlayingNth(g, Len(Scenario))
    /\ AfterOf("stop") => /\ player[g] = NoPlayer /\ Pending(g) = <<>>
                          /\ callbacks[g] = <<>> /\ ~StopFlagSet(g)
                          /\ lastDequeued[g] = Len(Scenario)
                          /\ last.msgs = <<>>

C4_Witness == AfterOf("stop") /\ bot = "OwnedBot" /\ lastDequeued["g1"] = Len(Scenario)
    /\ player["g1"] = NoPlayer /\ Pending("g1") = <<>>

(* C5: once the completion callback of a natural end or of a skip has run  *)
(* on a connected guild, the track it took from the front of pending is    *)
(* the one playing (voice_client.play did not reject it), and the guild is *)
(* not left without playback while a track waits and no callback is due.   *)
C5_AutoAdvance ==
    ((AfterOf("end") \/ AfterOf("skip")) /\ connected[last.g])
        => /\ ~last.raised
           /\ (Pending(last.g) # <<>> /\ callbacks[last.g] = <<>>)
                  => player[last.g].st \in {"playing", "paused"}

(* C6: a step of a play command taken while its guild is Playing or Paused *)
(* leaves the guild's player (current track and playback state) as it is   *)
(* and changes pending only by appending at its end.                       *)
C6_PlayOnlyAppends ==
    [][\A g \in AllGuilds :
          (last'.cmd = "play" /\ last'.g = g /\ player[g].st \in {"playing", "paused"})
              => /\ player'[g] = player[g]
                 /\ Len(Pending(g)') >= Len(Pending(g))
                 /\ SubSeq(Pending(g)', 1, Len(Pending(g))) = Pending(g)]_vars

(* What a command that changes nothing leaves alone and tells its caller. *)
NoOpWithMessage(g) ==
    /\ player'[g] = player[g]
    /\ Pending(g)' = Pending(g)
    /\ StopFlagSet(g)' = StopFlagSet(g)
    /\ ~last'.raised
    /\ last'.msgs # <<>>

(* C7: in OwnedBot pause takes a Playing guild to Paused and resume takes  *)
(* a Paused guild to Playing, each keeping the current track and pending;  *)
(* pause while not Playing and resume while not Paused change no state and *)
(* send the caller a message.                                              *)
C7_PauseResume ==
    [][\A g \in AllGuilds :
          /\ (bot = "OwnedBot" /\ last'.cmd = "pause" /\ last'.g = g)
                => IF is_playing(g)
                   THEN /\ player'[g] = [player[g] EXCEPT !.st = "paused"]
                        /\ Pending(g)' = Pending(g)
                   ELSE NoOpWithMessage(g)
          /\ (bot = "OwnedBot" /\ last'.cmd = "resume" /\ last'.g = g)
                => IF is_paused(g)
                   THEN /\ player'[g] = [player[g] EXCEPT !.st = "playing"]
                        /\ Pending(g)' = Pending(g)
                   ELSE NoOpWithMessage(g)]_vars

(* C8: a skip command on a guild that is not playing changes neither       *)
(* pending, nor the current track, nor the stop flag, raises no error and  *)
(* sends a message.                                                        *)
C8_SkipNotPlaying ==
    [][\A g \in AllGuilds :
          (last'.cmd = "skip" /\ last'.g = g /\ ~is_playing(g)) => NoOpWithMessage(g)]_vars

(* C9: a play command with a digit query n on a guild with L stored search *)
(* results hands the n-th result's url to the extraction when 1 <= n <= L, *)
(* and otherwise returns without handing anything to the extraction.       *)
C9_Ordinal ==
    (last.cmd = "play" /\ isdigit(last.q) /\ last.g \in DOMAIN search_results)
        => IF 1 <= int(last.q) /\ int(last.q) <= Len(search_results[last.g])
           THEN /\ ~last.done
                /\ last.url = WatchUrl(search_results[last.g][int(last.q)][2])
           ELSE last.done /\ last.url = NoUrl

(* C10: a play command with a digit query on a guild without stored search *)
(* results hands the query itself to the extraction.                       *)
C10_DigitsWithoutResults ==
    (last.cmd = "play" /\ isdigit(last.q) /\ last.g \notin DOMAIN search_results)
        => ~last.done /\ last.url = last.q

(* The tracks play command p appended, in the provider's order, when they  *)
(* are the latest the guild got.                                           *)
TracksOf(p) == Players(p.id, p.n, enqueued[p.g] - p.n)

(* The step in which play command p, suspended in its send, returns. *)
PlayCompletes(p) == p \in plays /\ p.stage = "sent" /\ plays' = plays \ {p}

(* A queue command lists pending, in its order. *)
ListsPending ==
    \A g \in AllGuilds :
        (last'.cmd = "queue" /\ last'.g = g /\ Pending(g)' # <<>>)
            => Len(last'.msgs) = 1 /\ last'.msgs[1].arg = Pending(g)'

(* C11 as stated: when a play command that resolved to N tracks returns    *)
(* and pending holds exactly its N tracks, pending (which a queue command  *)
(* lists) still holds all N in the provider's order.                       *)
C11_Original ==
    [][/\ ListsPending
       /\ \A p \in plays :
              (PlayCompletes(p) /\ Pending(p.g) = TracksOf(p))
                  => Pending(p.g)' = TracksOf(p)]_vars

(* C11 amended: pending, which a queue command lists, holds all N tracks   *)
(* in order unless the play command itself started playback; then the     *)
(* first of the N is the current track and pending holds the other N - 1.  *)
C11_Amended ==
    [][/\ ListsPending
       /\ \A p \in plays :
              (PlayCompletes(p) /\ Pending(p.g) = TracksOf(p))
                  => \/ /\ Pending(p.g)' = TracksOf(p)
                        /\ player'[p.g] = player[p.g]
                     \/ /\ ~is_playing(p.g)
                        /\ player'[p.g] = Playing(Head(TracksOf(p)))
                        /\ Pending(p.g)' = Tail(TracksOf(p))]_vars

C11_Witness ==
    /\ last.cmd = "queue" /\ last.g = "g1" /\ nextPlay = 2 /\ enqueued["g1"] = 2
    /\ player["g1"] = Playing(Track(1, 1))
    /\ last.msgs = <<Listing(<<Track(2, 1)>>)>>


(* C12: play commands are numbered in the order they are submitted; in     *)
(* pending no track of a later play command stands before a track of an    *)
(* earlier one, so the tracks of two commands are never interleaved and    *)
(* are played in submission order.                                         *)
C12_SubmissionOrder ==
    \A g \in AllGuilds :
        \A i \in 1..Len(Pending(g)) : \A j \in i..Len(Pending(g)) :
            TrackPlay(Pending(g)[i]) <= TrackPlay(Pending(g)[j])


(* What the program holds for guild b. *)
StoredResults(b) == IF b \in DOMAIN search_results THEN search_results[b] ELSE <<>>
GuildState(b) == <<Pending(b), player[b], StopFlagSet(b), StoredResults(b)>>

InFlight == {p \in plays : p.stage = "from_url"}

(* The commands the program accepts in the current state. *)
CommandsAccepted ==
    \A g \in Guilds :
        IF bot = "OwnedBot"
        THEN /\ ENABLED Owned_skip(g) /\ ENABLED Owned_stop(g)
             /\ ENABLED Owned_pause(g) /\ ENABLED Owned_resume(g)
             /\ ENABLED Owned_queue(g)
             /\ nextPlay <= env.plays => \A q \in Queries : ENABLED Owned_play(g, q)
        ELSE /\ ENABLED Cog_skip(g) /\ ENABLED Cog_stop(g)
             /\ ENABLED Cog_queue_info(g)
             /\ nextPlay <= env.plays => \A q \in Queries : ENABLED Cog_play(g, q)

(* The effect of a skip, stop, pause, resume or queue command on guild g,  *)
(* which returns in the same step and leaves the extractions running.      *)
TakesEffect(g) ==
    /\ last'.cmd \in {"skip", "stop", "pause", "resume", "queue"}
           => last'.done /\ InFlight' = InFlight
    /\ last'.cmd = "stop" => Pending(g)' = <<>> /\ ~is_playing(g)'
    /\ last'.cmd = "skip" => ~is_playing(g)'
    /\ (last'.cmd = "pause" /\ is_playing(g)) => is_paused(g)'
    /\ (last'.cmd = "resume" /\ is_paused(g)) => is_playing(g)'
    /\ (last'.cmd = "queue" /\ Pending(g) # <<>>) => last'.msgs[1].arg = Pending(g)

BindFailed == last.cmd = "after" /\ last.raised

(* C15: after a bind failure the failure has been reported with a message  *)
(* and the guild is not left with a track waiting, nothing playing and no  *)
(* callback due.                                                           *)
C15_BindFailureAdvances ==
    BindFailed
        => /\ last.msgs # <<>>
           /\ ~(Pending(last.g) # <<>> /\ ~is_playing(last.g) /\ callbacks[last.g] = <<>>)


(* The commands C16 names. *)
Commands ==
    {"join", "leave", "search", "play", "pause", "resume", "skip", "stop",
     "queue", "nowplaying", "volume"}

(* C16: an invocation of a command that has returned has sent exactly one  *)
(* message and raised no error.                                            *)
C16_ExactlyOneMessage ==
    (last.cmd \in Commands /\ last.done) => ~last.raised /\ Len(last.msgs) = 1

(* C17: a search that returned results leaves exactly its list as the      *)
(* guild's stored results, every other step leaves the stored results as   *)
(* they are, and an ordinal picks its url from the guild's stored list.    *)
C17_SearchReplaces ==
    /\ [][\A g \in AllGuilds :
              IF last'.cmd = "search" /\ last'.g = g /\ last'.msgs[1].text = "**Search Results:**"
              THEN StoredResults(g)' = last'.msgs[1].arg
              ELSE StoredResults(g)' = StoredResults(g)]_vars
    /\ []((last.cmd = "play" /\ isdigit(last.q) /\ last.url # NoUrl
                /\ last.g \in DOMAIN search_results)
             => \E i \in 1..Len(search_results[last.g]) :
                    last.url = WatchUrl(search_results[last.g][i][2]))

(* Guild g2 holds the one-entry list, g1 the two-entry list, and a play    *)
(* command on g1 picked entry 2 of g1's own list.                          *)
C17_Witness ==
    /\ last.cmd = "play" /\ last.g = "g1" /\ last.q = <<"2">>
    /\ last.url = WatchUrl("v3")
    /\ StoredResults("g2") = << <<"t1", "v1">> >>


(* The step is a clear or a stop command of OwnedBot on guild g. *)
ClearsQueue(g) == bot = "OwnedBot" /\ last'.g = g /\ last'.cmd \in {"clear", "stop"}

(* C18 as stated: the clear command and stop leave pending empty and the   *)
(* guild's stop flag set.                                                  *)
C18_Original ==
    [][\A g \in AllGuilds :
          ClearsQueue(g) => Pending(g)' = <<>> /\ StopFlagSet(g)']_vars

(* C18 amended: the clear command and stop leave pending empty; the flag   *)
(* is set only by a stop on a guild that is playing, clear leaves it as it *)
(* is; a track enters pending only as a newly appended one and a track     *)
(* starts only from the front of pending, so no later step, callback       *)
(* included, plays a track that was cleared.                               *)
C18_Amended ==
    [][\A g \in AllGuilds :
          /\ ClearsQueue(g) => Pending(g)' = <<>>
          /\ (ClearsQueue(g) /\ last'.cmd = "clear") => StopFlagSet(g)' = StopFlagSet(g)
          /\ (ClearsQueue(g) /\ last'.cmd = "stop")
                => StopFlagSet(g)' = (StopFlagSet(g) \/ (connected[g] /\ player[g].st = "playing"))
          /\ \A i \in 1..Len(Pending(g)') :
                 \/ TrackNo(Pending(g)'[i]) > enqueued[g]
                 \/ \E j \in 1..Len(Pending(g)) : Pending(g)[j] = Pending(g)'[i]
          /\ (player'[g].st # "none" /\ player'[g].src # player[g].src)
                => Pending(g) # <<>> /\ player'[g].src = Head(Pending(g))]_vars

(* A clear that threw away waiting tracks while a completion callback was  *)
(* due, leaving the flag unset.                                            *)
C18_Witness ==
    /\ bot = "OwnedBot" /\ last.cmd = "clear"
    /\ callbacks[last.g] # <<>> /\ ~StopFlagSet(last.g)
    /\ Pending(last.g) = <<>> /\ lastDequeued[last.g] = 1 /\ enqueued[last.g] = 2


IsPrefix(s, t) == Len(s) <= Len(t) /\ SubSeq(t, 1, Len(s)) = s

(* C19: a guild's queue, once created, stays the guild's queue: no step    *)
(* removes the entry, and every step other than stop and clear keeps the   *)
(* tracks that wait, in their order, at the front of pending, except that  *)
(* a play_next (in a play command or a callback) may take the first one.   *)
C19_OneQueue ==
    [][\A g \in AllGuilds :
          /\ g \in DOMAIN song_queues => g \in DOMAIN song_queues'
          /\ last'.cmd \notin {"stop", "clear"}
                => \/ IsPrefix(Pending(g), Pending(g)')
                   \/ /\ last'.cmd \in {"play", "after"} /\ last'.done /\ last'.g = g
                      /\ Pending(g) # <<>>
                      /\ IsPrefix(Tail(Pending(g)), Pending(g)')]_vars

(* Two play commands were submitted for a guild without a queue before     *)
(* either extraction returned, and the tracks of both wait in its queue.   *)
C19_Witness ==
    /\ Len(Pending("g1")) = 2 /\ lastDequeued["g1"] = 0 /\ plays # {}
    /\ TrackPlay(Pending("g1")[1]) = 2 /\ TrackPlay(Pending("g1")[2]) = 1
    /\ \A p \in plays : p.stage = "sent"


(* The step in which play command p ends because its extraction raised or  *)
(* returned no player.                                                     *)
ExtractionFails(p) ==
    /\ p \in plays /\ p.stage = "from_url"
    /\ \A r \in plays' : r.id # p.id

ErrorTexts == {"An error occurred:", "Could not find any songs with that query."}

(* C20: when the extraction of a play command fails or returns nothing,    *)
(* the command returns without raising, having sent one error message and  *)
(* left the guild's pending, player, stop flag, stored results and         *)
(* callbacks as they were, and the commands are accepted afterwards.       *)
C20_ExtractionFailure ==
    /\ [][\A p \in plays :
              ExtractionFails(p)
                  => /\ GuildState(p.g)' = GuildState(p.g)
                     /\ callbacks' = callbacks /\ connected' = connected
                     /\ last'.cmd = "play" /\ last'.g = p.g
                     /\ last'.done /\ ~last'.raised
                     /\ Len(last'.msgs) = 1 /\ last'.msgs[1].text \in ErrorTexts]_vars
    /\ []((last.cmd = "play" /\ last.done /\ Len(last.msgs) = 1
                /\ last.msgs[1].text \in ErrorTexts)
             => CommandsAccepted)

(* The extraction of a second play command failed while the first one's    *)
(* playlist was playing.                                                   *)
C20_Witness ==
    /\ last.cmd = "play" /\ last.done /\ last.msgs = <<ErrorOccurred>>
    /\ nextPlay = 3 /\ plays = {}
    /\ is_playing(last.g) /\ Len(Pending(last.g)) = 1 /\ enqueued[last.g] = 2


(* C21: on a connected guild play_next takes a track from pending only     *)
(* while the voice client is not playing, and the track it takes becomes   *)
(* the playing one; a waiting track leaves pending otherwise only in a     *)
(* stop or a clear.                                                        *)
C21_NoTrackLost ==
    [][\A g \in AllGuilds :
          /\ (connected[g] /\ lastDequeued'[g] # lastDequeued[g])
                => /\ ~is_playing(g)
                   /\ player'[g] = Playing(Head(Pending(g)))
          /\ ~IsPrefix(Pending(g), Pending(g)')
                => \/ last'.cmd \in {"stop", "clear"}
                   \/ lastDequeued'[g] # lastDequeued[g]]_vars


(* Track number n of guild g waits in pending / is the current track. *)
Waits(g, n) == \E i \in 1..Len(Pending(g)) : TrackNo(Pending(g)[i]) = n
IsCurrent(g, n) == player[g].st # "none" /\ TrackNo(player[g].src) = n

(* C22: the stop flag becomes true only in a stop command on a playing     *)
(* guild, is false after every play_next, and is false whenever no         *)
(* completion callback is due; and a track that a play command enqueued    *)
(* after a stop on a connected guild starts playing, unless a later stop   *)
(* removes it.                                                             *)
C22_StopFlag ==
    /\ [][\A g \in AllGuilds :
              /\ (~StopFlagSet(g) /\ StopFlagSet(g)')
                    => last'.cmd = "stop" /\ last'.g = g /\ is_playing(g)
              /\ (\/ last'.cmd = "after" /\ last'.g = g
                  \/ \E p \in plays :
                        /\ p.stage = "sent" /\ p.g = g /\ plays' = plays \ {p}
                        /\ connected[g] /\ ~is_playing(g))
                    => ~StopFlagSet(g)']_vars
    /\ [](\A g \in AllGuilds : StopFlagSet(g) => callbacks[g] # <<>>)
    /\ \A g \in AllGuilds : \A n \in 1..(MaxPlays * MaxEntries) :
           (connected[g] /\ Waits(g, n) /\ stopMark[g] > 0 /\ stopMark[g] < n)
               ~> (IsCurrent(g, n) \/ stopMark[g] >= n)


(* C23: while a guild has no voice connection no track is taken from its   *)
(* pending tracks: a step of a play command or of a completion callback on *)
(* that guild removes nothing from pending.                                *)
C23_ConnectedOnly ==
    [][\A g \in AllGuilds :
          ~connected[g]
             => /\ lastDequeued'[g] = lastDequeued[g]
                /\ (last'.g = g /\ last'.cmd \in {"play", "after"})
                      => IsPrefix(Pending(g), Pending(g)')]_vars

=============================================================================
